---- MODULE Spec2Model ----
(***************************************************************************)
(* A model of TabCommunicator (src/src/TabCommunicator.ts): instances on   *)
(* one BroadcastChannel, their peer tables, the presence protocol, the     *)
(* heartbeat timer and the router of inbound envelopes.                    *)
(***************************************************************************)
EXTENDS Naturals, Integers, Sequences, FiniteSets, TLC

(* ---------------------------------------------------------------------- *)
(* Bounds of the model                                                     *)
(* ---------------------------------------------------------------------- *)
\* Date.now() advances in steps of ClockStep up to MaxTime (milliseconds).
ClockStep == 5000
MaxTime == 20000
\* User calls of send() over a whole run.
MaxSends == 1
\* Envelopes posted on the channel by a script that is not a TabCommunicator.
MaxForeign == 1
MaxQueue == 2
\* Envelopes still undispatched when the clock moves on.
MaxLate == 0
\* Firings of the beforeunload event over a whole run.
MaxUnloads == 1
\* Nested calls of _handleError the call stack has room for.
MaxStack == 3

(* ---------------------------------------------------------------------- *)
(* Program constants                                                       *)
(* ---------------------------------------------------------------------- *)
HeartbeatIntervalMs == 5000
StaleTimeoutMs == 15000

NULL == "null"

\* The internal ids _generateInternalId can return, one per instance.
Ids == {"tc_a", "tc_b", "tc_c"}
\* The registration ids a user passes to the constructor.
RegIds == {"r1", "r2"}

REGISTER == "__tc_register"
DISCONNECT == "__tc_disconnect"
DISCOVER == "__tc_discover"
DISCOVER_RESPONSE == "__tc_discover_response"
HEARTBEAT == "__tc_heartbeat"
HEARTBEAT_RESPONSE == "__tc_heartbeat_response"

InternalMessageType ==
    {REGISTER, DISCONNECT, DISCOVER, DISCOVER_RESPONSE, HEARTBEAT, HEARTBEAT_RESPONSE}

\* The types and payloads the modelled user code passes to send().
UserTypes == {"ping"}
UserPayloads == {[n |-> 1]}

VARIABLES
    now,                \* Date.now()
    alive,              \* alive[i]: "unborn", "live" (constructed), "gone" (context destroyed)
    _registrationId,    \* _registrationId[i]
    _isConnected,       \* _isConnected[i]
    _peers,             \* _peers[i]: the Map, as its entries in insertion order
    _heartbeatInterval, \* _heartbeatInterval[i]: <<time of the next tick>>, or <<>> (none)
    cbThrows,           \* cbThrows[i]: the configured on* callbacks of i throw
    _eventListeners,    \* _eventListeners[i]: the events with a listener, added by on(), that throws
    chan,               \* chan[s][d]: envelopes posted by s, not yet dispatched at d
    sends,              \* number of user send() calls so far
    foreign,            \* number of foreign envelopes posted so far
    unloads,            \* number of beforeunload events so far
    step                \* what the entry point that ran last did

vars == <<now, alive, _registrationId, _isConnected, _peers, _heartbeatInterval,
          cbThrows, _eventListeners, chan, sends, foreign, unloads, step>>

(* ---------------------------------------------------------------------- *)
(* Helpers                                                                 *)
(* ---------------------------------------------------------------------- *)
\* a || b of JavaScript for string-or-null operands (no empty strings here)
OrElse(a, b) == IF a = NULL THEN b ELSE a

Range(s) == {s[k] : k \in 1..Len(s)}

\* A notification: _emitEvent(ev, data) ("emit") or a configured callback
\* ("callback"); data is a record: [peerId], an envelope, or [error]. A note
\* with via "throw" marks the RangeError of an exhausted call stack
Note(via, ev, data) == [via |-> via, ev |-> ev, data |-> data]

\* The payload of every internal envelope
Identity(i) == [internalId |-> i, registrationId |-> _registrationId[i]]

Envelope(from, to, type, payload) ==
    [from |-> from, to |-> to, type |-> type, payload |-> payload, timestamp |-> now]

NoPayload == [internalId |-> NULL, registrationId |-> NULL]

\* The result of a piece of handler code: the peer table it leaves, the
\* notifications it raised, the envelopes it handed to the transport, and
\* whether an exception is propagating out of it.
Result(tbl, notes, posted, thrown) ==
    [tbl |-> tbl, notes |-> notes, posted |-> posted, thrown |-> thrown]

(* ---------------------------------------------------------------------- *)
(* The peer table: Map<string, PeerInfo>                                   *)
(* ---------------------------------------------------------------------- *)
PeerInfo(internalId, registrationId, lastSeen) ==
    [internalId |-> internalId, registrationId |-> registrationId, lastSeen |-> lastSeen]

Keys(tbl) == {tbl[k].internalId : k \in 1..Len(tbl)}

\* Map.has
MapHas(tbl, id) == id \in Keys(tbl)

\* Map.get of a key the Map has
MapGet(tbl, id) == tbl[CHOOSE k \in 1..Len(tbl) : tbl[k].internalId = id]

\* Map.delete: the other entries keep their order
MapDelete(tbl, id) == SelectSeq(tbl, LAMBDA p : p.internalId # id)

\* Map.set of a new key appends; of an existing key replaces in place
MapSet(tbl, id, info) ==
    IF id \in Keys(tbl)
    THEN [k \in 1..Len(tbl) |-> IF tbl[k].internalId = id THEN info ELSE tbl[k]]
    ELSE Append(tbl, info)

\* get peers(): registration id preferred over internal id
peers(i) == {OrElse(_peers[i][k].registrationId, _peers[i][k].internalId) :
                k \in 1..Len(_peers[i])}

\* _findPeerByAnyId: <<the first matching entry in iteration order>>, or <<>> (undefined)
_findPeerByAnyId(tbl, id) ==
    LET hits == {k \in 1..Len(tbl) : tbl[k].internalId = id \/ tbl[k].registrationId = id}
    IN  IF hits = {} THEN <<>>
        ELSE <<tbl[CHOOSE k \in hits : \A h \in hits : k <= h]>>

(* ---------------------------------------------------------------------- *)
(* Notifications                                                           *)
(* ---------------------------------------------------------------------- *)
\* The user events a listener can be registered for
EventTypes == {"message", "peerConnected", "peerDisconnected"}

\* The events on() accepts
AllEventTypes == EventTypes \cup {"error"}

\* What a notification routine did: the notes, and whether it threw
Raise(notes, thrown) == [notes |-> notes, thrown |-> thrown]

\* The call stack was exhausted while these notes were made
StackExhausted(notes) == \E k \in 1..Len(notes) : notes[k].via = "throw"

RECURSIVE _handleError(_, _)

\* _emitEvent(ev, data) at the given depth of nested _handleError calls: the
\* listeners of ev are called in turn; what one of them throws is caught and
\* handed to _handleError from inside the catch block, so that what
\* _handleError throws leaves _emitEvent
_emitEvent(i, ev, data, depth) ==
    IF ev \in _eventListeners[i]
    THEN LET h == _handleError(i, depth + 1)
         IN  Raise(<<Note("emit", ev, data)>> \o h.notes, h.thrown)
    ELSE Raise(<<Note("emit", ev, data)>>, FALSE)

\* _handleError(error): the error event, then options.onError; the call
\* throws a RangeError when the stack has no room for it
_handleError(i, depth) ==
    IF depth > MaxStack
    THEN Raise(<<Note("throw", "error", [error |-> "RangeError"])>>, TRUE)
    ELSE LET e == _emitEvent(i, "error", [error |-> "HandlerFailure"], depth)
         IN  IF e.thrown THEN e
             ELSE Raise(e.notes \o <<Note("callback", "error", [error |-> "HandlerFailure"])>>,
                        FALSE)

\* _emitEvent(ev, data) followed by the configured callback of that event;
\* an exception of the callback propagates to the caller
Notify(i, tbl, ev, data) ==
    LET e == _emitEvent(i, ev, data, 0)
    IN  IF e.thrown THEN Result(tbl, e.notes, <<>>, TRUE)
        ELSE Result(tbl, e.notes \o <<Note("callback", ev, data)>>, <<>>, cbThrows[i])

Nothing(tbl) == Result(tbl, <<>>, <<>>, FALSE)

(* ---------------------------------------------------------------------- *)
(* Presence protocol handlers                                              *)
(* ---------------------------------------------------------------------- *)
\* Mutant: internal envelopes carry the registration id, if there is one, as from
_sendInternalMessage_Alias(i, type) == Envelope(OrElse(_registrationId[i], i), NULL, type, Identity(i))

\* _sendInternalMessage: from is always the internal id, to is null
_sendInternalMessage(i, type) == Envelope(i, NULL, type, Identity(i))

\* Mutant: the notification carries the internal id, whatever the registration id
_handlePeerRegister_InternalIdOnly(i, tbl, payload) ==
    LET internalId == payload.internalId
        registrationId == payload.registrationId
    IN  IF internalId = i THEN Nothing(tbl)
        ELSE IF ~MapHas(tbl, internalId)
        THEN Notify(i, MapSet(tbl, internalId, PeerInfo(internalId, NULL, now)),
                    "peerConnected", [peerId |-> internalId])
        ELSE Nothing(MapSet(tbl, internalId, PeerInfo(internalId, NULL, now)))

\* Mutant: a Register naming the receiver itself is handled like any other
_handlePeerRegister_NoSelfCheck(i, tbl, payload) ==
    LET internalId == payload.internalId
        registrationId == payload.registrationId
    IN  IF ~MapHas(tbl, internalId)
        THEN Notify(i, MapSet(tbl, internalId, PeerInfo(internalId, OrElse(registrationId, NULL), now)),
                    "peerConnected", [peerId |-> OrElse(registrationId, internalId)])
        ELSE Nothing(MapSet(tbl, internalId,
                            PeerInfo(internalId, OrElse(registrationId, NULL), now)))

\* Mutant: a Register for a known peer refreshes lastSeen and keeps the alias
_handlePeerRegister_KeepAlias(i, tbl, payload) ==
    LET internalId == payload.internalId
        registrationId == payload.registrationId
    IN  IF internalId = i THEN Nothing(tbl)
        ELSE IF ~MapHas(tbl, internalId)
        THEN Notify(i, MapSet(tbl, internalId, PeerInfo(internalId, OrElse(registrationId, NULL), now)),
                    "peerConnected", [peerId |-> OrElse(registrationId, internalId)])
        ELSE Nothing(MapSet(tbl, internalId,
                            PeerInfo(internalId, MapGet(tbl, internalId).registrationId, now)))

\* Mutant: a new peer is entered without the peerConnected notification
_handlePeerRegister_Quiet(i, tbl, payload) ==
    LET internalId == payload.internalId
        registrationId == payload.registrationId
    IN  IF internalId = i THEN Nothing(tbl)
        ELSE Nothing(MapSet(tbl, internalId,
                            PeerInfo(internalId, OrElse(registrationId, NULL), now)))

_handlePeerRegister(i, tbl, payload) ==
    LET internalId == payload.internalId
        registrationId == payload.registrationId
    IN  IF internalId = i THEN Nothing(tbl)
        ELSE IF ~MapHas(tbl, internalId)
        THEN Notify(i, MapSet(tbl, internalId, PeerInfo(internalId, OrElse(registrationId, NULL), now)),
                    "peerConnected", [peerId |-> OrElse(registrationId, internalId)])
        ELSE Nothing(MapSet(tbl, internalId,
                            PeerInfo(internalId, OrElse(registrationId, NULL), now)))

\* Mutant: the notification is raised but the entry stays
_handlePeerDisconnect_NoDelete(i, tbl, payload) ==
    LET internalId == payload.internalId
    IN  IF MapHas(tbl, internalId)
        THEN LET peer == MapGet(tbl, internalId)
             IN  Notify(i, tbl, "peerDisconnected",
                        [peerId |-> OrElse(peer.registrationId, peer.internalId)])
        ELSE Nothing(tbl)

\* Mutant: the notification is raised whether or not the entry exists
_handlePeerDisconnect_Unguarded(i, tbl, payload) ==
    Notify(i, MapDelete(tbl, payload.internalId), "peerDisconnected",
           [peerId |-> OrElse(payload.registrationId, payload.internalId)])

_handlePeerDisconnect(i, tbl, payload) ==
    LET internalId == payload.internalId
    IN  IF MapHas(tbl, internalId)
        THEN LET peer == MapGet(tbl, internalId)
             IN  Notify(i, MapDelete(tbl, internalId), "peerDisconnected",
                        [peerId |-> OrElse(peer.registrationId, peer.internalId)])
        ELSE Nothing(tbl)

\* Mutant: the discover request is not answered
_handlePeerDiscover_Silent(i, tbl, fromId) == Nothing(tbl)

_handlePeerDiscover(i, tbl, fromId) ==
    Result(tbl, <<>>, <<_sendInternalMessage(i, DISCOVER_RESPONSE)>>, FALSE)

\* Mutant: a heartbeat creates or refreshes the entry of its sender
_handlePeerHeartbeat_Learns(i, tbl, fromId) ==
    Result(MapSet(tbl, fromId, PeerInfo(fromId, NULL, now)), <<>>,
           <<_sendInternalMessage(i, HEARTBEAT_RESPONSE)>>, FALSE)

_handlePeerHeartbeat(i, tbl, fromId) ==
    Result(tbl, <<>>, <<_sendInternalMessage(i, HEARTBEAT_RESPONSE)>>, FALSE)

\* Mutant: the response is ignored
_handlePeerHeartbeatResponse_NoRefresh(i, tbl, payload) == Nothing(tbl)

\* Mutant: a Heartbeat-Response is answered with a Heartbeat-Response
_handlePeerHeartbeatResponse_Replies(i, tbl, payload) ==
    Result(tbl, <<>>, <<_sendInternalMessage(i, HEARTBEAT_RESPONSE)>>, FALSE)

_handlePeerHeartbeatResponse(i, tbl, payload) ==
    LET internalId == payload.internalId
    IN  IF MapHas(tbl, internalId)
        THEN LET peer == MapGet(tbl, internalId)
             IN  Nothing(MapSet(tbl, internalId,
                                PeerInfo(peer.internalId, peer.registrationId, now)))
        ELSE Nothing(tbl)

_handleInternalMessage(i, tbl, message) ==
    CASE message.type = REGISTER -> _handlePeerRegister(i, tbl, message.payload)
      [] message.type = DISCONNECT -> _handlePeerDisconnect(i, tbl, message.payload)
      [] message.type = DISCOVER -> _handlePeerDiscover(i, tbl, message.from)
      [] message.type = DISCOVER_RESPONSE -> _handlePeerRegister(i, tbl, message.payload)
      [] message.type = HEARTBEAT -> _handlePeerHeartbeat(i, tbl, message.from)
      [] message.type = HEARTBEAT_RESPONSE -> _handlePeerHeartbeatResponse(i, tbl, message.payload)
      [] OTHER -> Nothing(tbl)

(* ---------------------------------------------------------------------- *)
(* The router                                                              *)
(* ---------------------------------------------------------------------- *)
\* Mutant: only the internal id is compared with the sender
Route_InternalIdOnly(i, tbl, message) ==
    IF message.from = i
    THEN Nothing(tbl)
    ELSE IF message.type \in InternalMessageType
    THEN _handleInternalMessage(i, tbl, message)
    ELSE IF message.to # NULL /\ ~(message.to = i \/ message.to = _registrationId[i])
    THEN Nothing(tbl)
    ELSE Notify(i, tbl, "message", message)

\* Mutant: only broadcast envelopes are tested for an internal type
Route_SurfaceTargeted(i, tbl, message) ==
    IF message.from = i \/ message.from = _registrationId[i]
    THEN Nothing(tbl)
    ELSE IF message.type \in InternalMessageType /\ message.to = NULL
    THEN _handleInternalMessage(i, tbl, message)
    ELSE IF message.to # NULL /\ ~(message.to = i \/ message.to = _registrationId[i])
    THEN Nothing(tbl)
    ELSE Notify(i, tbl, "message", message)

\* The body of the try block of _handleMessage
Route(i, tbl, message) ==
    IF message.from = i \/ message.from = _registrationId[i]
    THEN Nothing(tbl)
    ELSE IF message.type \in InternalMessageType
    THEN _handleInternalMessage(i, tbl, message)
    ELSE IF message.to # NULL /\ ~(message.to = i \/ message.to = _registrationId[i])
    THEN Nothing(tbl)
    ELSE Notify(i, tbl, "message", message)

\* _handleMessage: whatever the try block throws goes to _handleError
_handleMessage(i, tbl, message) ==
    LET r == Route(i, tbl, message)
    IN  IF r.thrown
        THEN LET h == _handleError(i, 1)
             IN  Result(r.tbl, r.notes \o h.notes, r.posted, h.thrown)
        ELSE r

(* ---------------------------------------------------------------------- *)
(* The scheduler tick                                                      *)
(* ---------------------------------------------------------------------- *)
\* Mutant: no entry is ever found stale
StalePeers_Never(tbl) == <<>>

\* The ids the first loop of _sendHeartbeat collects, in iteration order
StalePeers(tbl) ==
    LET stale == SelectSeq(tbl, LAMBDA p : now - p.lastSeen > StaleTimeoutMs)
    IN  [k \in 1..Len(stale) |-> stale[k].internalId]

\* The second loop of _sendHeartbeat; an exception of onPeerDisconnected ends it
RECURSIVE RemoveStale(_, _, _)
RemoveStale(i, tbl, stalePeers) ==
    IF stalePeers = <<>> THEN Nothing(tbl)
    ELSE LET internalId == Head(stalePeers)
         IN  IF MapHas(tbl, internalId)
             THEN LET peer == MapGet(tbl, internalId)
                      one == Notify(i, MapDelete(tbl, internalId), "peerDisconnected",
                                    [peerId |-> OrElse(peer.registrationId, peer.internalId)])
                      rest == RemoveStale(i, one.tbl, Tail(stalePeers))
                  IN  IF one.thrown THEN one
                      ELSE Result(rest.tbl, one.notes \o rest.notes, <<>>, rest.thrown)
             ELSE RemoveStale(i, tbl, Tail(stalePeers))

_sendHeartbeat(i, tbl) ==
    IF ~_isConnected[i] THEN Nothing(tbl)
    ELSE LET swept == RemoveStale(i, tbl, StalePeers(tbl))
         IN  Result(swept.tbl, swept.notes, <<_sendInternalMessage(i, HEARTBEAT)>>, swept.thrown)

(* ---------------------------------------------------------------------- *)
(* send() and its checks                                                   *)
(* ---------------------------------------------------------------------- *)
\* A payload JSON.stringify throws on
Cyclic == [cycle |-> TRUE]

\* _validateMessage: TRUE when it throws InvalidMessageError
_validateMessage(type, payload) == type = NULL \/ type = "" \/ type = " " \/ payload = Cyclic

\* the truthiness of a string-or-null value
Truthy(v) == v # NULL /\ v # ""

\* Mutant: the target is looked up before the message is validated
send_TargetFirst(i, targetId, type, payload) ==
    IF ~_isConnected[i] THEN [result |-> "CommunicatorClosedError", posted |-> <<>>]
    ELSE IF Truthy(targetId) /\ _findPeerByAnyId(_peers[i], targetId) = <<>>
    THEN [result |-> "PeerNotFoundError", posted |-> <<>>]
    ELSE IF _validateMessage(type, payload)
    THEN [result |-> "InvalidMessageError", posted |-> <<>>]
    ELSE [result |-> "ok",
          posted |-> <<Envelope(OrElse(_registrationId[i], i), targetId, type, payload)>>]

\* Mutant: the message is validated before the connection is checked
send_ValidateFirst(i, targetId, type, payload) ==
    IF _validateMessage(type, payload)
    THEN [result |-> "InvalidMessageError", posted |-> <<>>]
    ELSE IF ~_isConnected[i] THEN [result |-> "CommunicatorClosedError", posted |-> <<>>]
    ELSE IF Truthy(targetId) /\ _findPeerByAnyId(_peers[i], targetId) = <<>>
    THEN [result |-> "PeerNotFoundError", posted |-> <<>>]
    ELSE [result |-> "ok",
          posted |-> <<Envelope(OrElse(_registrationId[i], i), targetId, type, payload)>>]

\* send(targetId, type, payload): the error it throws, or "ok" and the envelope
send(i, targetId, type, payload) ==
    IF ~_isConnected[i] THEN [result |-> "CommunicatorClosedError", posted |-> <<>>]
    ELSE IF _validateMessage(type, payload)
    THEN [result |-> "InvalidMessageError", posted |-> <<>>]
    ELSE IF Truthy(targetId) /\ _findPeerByAnyId(_peers[i], targetId) = <<>>
    THEN [result |-> "PeerNotFoundError", posted |-> <<>>]
    ELSE [result |-> "ok",
          posted |-> <<Envelope(OrElse(_registrationId[i], i), targetId, type, payload)>>]

(* ---------------------------------------------------------------------- *)
(* The BroadcastChannel                                                    *)
(* ---------------------------------------------------------------------- *)
\* A script on the channel that is not a TabCommunicator
EXT == "ext"
Sources == Ids \cup {EXT}

\* The channel objects that are open: constructed, not closed, context alive
Listening(d) == alive[d] = "live" /\ _isConnected[d]

\* postMessage by src of the envelopes of posted, in order: one task per
\* other open channel object of the same name
Post(ch, src, posted, open) ==
    [s \in Sources |-> [d \in Ids |->
        IF s = src /\ d # src /\ d \in open THEN ch[s][d] \o posted ELSE ch[s][d]]]

\* The model leaves at most MaxQueue undispatched envelopes per sender and receiver
CanPost(src, posted) ==
    \A d \in Ids : (d # src /\ Listening(d)) => Len(chan[src][d]) + Len(posted) <= MaxQueue

\* The number of envelopes posted and not yet dispatched
InFlight ==
    Cardinality({t \in Sources \X Ids \X (1..MaxQueue) : t[3] <= Len(chan[t[1]][t[2]])})

\* channel.close(), or the context going away: the tasks queued for d find
\* the closed flag set and do nothing
Detach(ch, d0) == [s \in Sources |-> [d \in Ids |-> IF d = d0 THEN <<>> ELSE ch[s][d]]]

NoEnvelope == [from |-> NULL, to |-> NULL, type |-> NULL, payload |-> NoPayload, timestamp |-> 0]

\* What an entry point did: the instance it ran on and when, the envelope it
\* handled, the peer table it found, the notifications it raised, the
\* envelopes it handed to the transport, and the error it threw ("ok": none)
Step(op, i, msg, before, notes, posted, result) ==
    [op |-> op, self |-> i, time |-> now, msg |-> msg, before |-> before,
     notes |-> notes, posted |-> posted, result |-> result]

(* ---------------------------------------------------------------------- *)
(* Initial state and actions                                               *)
(* ---------------------------------------------------------------------- *)
IdOrder == <<"tc_a", "tc_b", "tc_c">>

Init ==
    /\ now = 0
    /\ alive = [i \in Ids |-> "unborn"]
    /\ _registrationId = [i \in Ids |-> NULL]
    /\ _isConnected = [i \in Ids |-> FALSE]
    /\ _peers = [i \in Ids |-> <<>>]
    /\ _heartbeatInterval = [i \in Ids |-> <<>>]
    /\ cbThrows = [i \in Ids |-> FALSE]
    /\ _eventListeners = [i \in Ids |-> {}]
    /\ chan = [s \in Sources |-> [d \in Ids |-> <<>>]]
    /\ sends = 0
    /\ foreign = 0
    /\ unloads = 0
    /\ step = Step("init", NULL, NoEnvelope, <<>>, <<>>, <<>>, "ok")

\* new TabCommunicator({registrationId: r, on*: callbacks that throw iff t});
\* the k-th instance constructed gets the k-th internal id
Construct(i, r, t) ==
    /\ alive[i] = "unborn"
    /\ \A k \in 1..Len(IdOrder) : IdOrder[k] = i => \A j \in 1..(k-1) : alive[IdOrder[j]] # "unborn"
    /\ alive' = [alive EXCEPT ![i] = "live"]
    /\ _registrationId' = [_registrationId EXCEPT ![i] = OrElse(r, NULL)]
    /\ cbThrows' = [cbThrows EXCEPT ![i] = t]
    /\ _isConnected' = [_isConnected EXCEPT ![i] = TRUE]
    /\ _heartbeatInterval' = [_heartbeatInterval EXCEPT ![i] = <<now + HeartbeatIntervalMs>>]
    /\ LET posted == <<Envelope(i, NULL, REGISTER, [internalId |-> i, registrationId |-> OrElse(r, NULL)]),
                       Envelope(i, NULL, DISCOVER, [internalId |-> i, registrationId |-> OrElse(r, NULL)])>>
       IN  /\ CanPost(i, posted)
           /\ chan' = Post(chan, i, posted, {d \in Ids : Listening(d)})
           /\ step' = Step("construct", i, NoEnvelope, _peers[i], <<>>, posted, "ok")
    /\ UNCHANGED <<now, _peers, _eventListeners, sends, foreign, unloads>>

\* The message event of d for the oldest undispatched envelope posted by s
Deliver(s, d) ==
    /\ Listening(d)
    /\ chan[s][d] # <<>>
    /\ LET message == Head(chan[s][d])
           r == _handleMessage(d, _peers[d], message)
           taken == [chan EXCEPT ![s][d] = Tail(@)]
       IN  /\ CanPost(d, r.posted)
           /\ _peers' = [_peers EXCEPT ![d] = r.tbl]
           /\ chan' = Post(taken, d, r.posted, {x \in Ids : Listening(x)})
           /\ step' = Step("deliver", d, message, _peers[d], r.notes, r.posted,
                            IF r.thrown THEN "RangeError" ELSE "ok")
    /\ UNCHANGED <<now, alive, _registrationId, _isConnected, _heartbeatInterval,
                   cbThrows, _eventListeners, sends, foreign, unloads>>

\* The setInterval callback of i; the timer is re-armed one period later
Tick(i) ==
    /\ alive[i] = "live"
    /\ _heartbeatInterval[i] # <<>>
    /\ now >= _heartbeatInterval[i][1]
    /\ LET r == _sendHeartbeat(i, _peers[i])
       IN  /\ CanPost(i, r.posted)
           /\ _peers' = [_peers EXCEPT ![i] = r.tbl]
           /\ chan' = Post(chan, i, r.posted, {x \in Ids : Listening(x)})
           /\ step' = Step("tick", i, NoEnvelope, _peers[i], r.notes, r.posted,
                            IF ~r.thrown THEN "ok"
                            ELSE IF StackExhausted(r.notes) THEN "RangeError"
                            ELSE "HandlerFailure")
    /\ _heartbeatInterval' = [_heartbeatInterval EXCEPT ![i] = <<now + HeartbeatIntervalMs>>]
    /\ UNCHANGED <<now, alive, _registrationId, _isConnected, cbThrows, _eventListeners, sends, foreign, unloads>>

\* A call of send() by the user of i
Send(i, targetId, type, payload) ==
    /\ alive[i] = "live"
    /\ sends < MaxSends
    /\ sends' = sends + 1
    /\ LET r == send(i, targetId, type, payload)
       IN  /\ CanPost(i, r.posted)
           /\ chan' = Post(chan, i, r.posted, {x \in Ids : Listening(x)})
           /\ step' = Step("send", i, Envelope(NULL, targetId, type, payload), _peers[i],
                            <<>>, r.posted, r.result)
    /\ UNCHANGED <<now, alive, _registrationId, _isConnected, _peers, _heartbeatInterval,
                   cbThrows, _eventListeners, foreign, unloads>>

\* A call of on(ev, callback) by the user of i, with a callback that throws
On(i, ev) ==
    /\ alive[i] = "live"
    /\ ev \notin _eventListeners[i]
    /\ _eventListeners' = [_eventListeners EXCEPT ![i] = @ \cup {ev}]
    /\ step' = Step("on", i, NoEnvelope, _peers[i], <<>>, <<>>, "ok")
    /\ UNCHANGED <<now, alive, _registrationId, _isConnected, _peers, _heartbeatInterval,
                   cbThrows, chan, sends, foreign, unloads>>

\* Mutant: close() does not test _isConnected first
Close_Again(i) ==
    /\ alive[i] = "live"
    /\ LET posted == <<_sendInternalMessage(i, DISCONNECT)>>
       IN  /\ CanPost(i, posted)
           /\ chan' = Detach(Post(chan, i, posted, {x \in Ids : Listening(x)}), i)
           /\ _heartbeatInterval' = [_heartbeatInterval EXCEPT ![i] = <<>>]
           /\ _isConnected' = [_isConnected EXCEPT ![i] = FALSE]
           /\ step' = Step("close", i, NoEnvelope, _peers[i], <<>>, posted, "ok")
    /\ UNCHANGED <<now, alive, _registrationId, _peers, cbThrows, _eventListeners, sends, foreign, unloads>>

\* Mutant: close() leaves the heartbeat interval running
Close_KeepTimer(i) ==
    /\ alive[i] = "live"
    /\ IF ~_isConnected[i]
       THEN /\ step' = Step("close", i, NoEnvelope, _peers[i], <<>>, <<>>, "ok")
            /\ UNCHANGED <<_isConnected, chan>>
       ELSE LET posted == <<_sendInternalMessage(i, DISCONNECT)>>
            IN  /\ CanPost(i, posted)
                /\ chan' = Detach(Post(chan, i, posted, {x \in Ids : Listening(x)}), i)
                /\ _isConnected' = [_isConnected EXCEPT ![i] = FALSE]
                /\ step' = Step("close", i, NoEnvelope, _peers[i], <<>>, posted, "ok")
    /\ UNCHANGED <<now, alive, _registrationId, _peers, _heartbeatInterval, cbThrows,
                   _eventListeners, sends, foreign, unloads>>

\* A call of close() by the user of i
Close(i) ==
    /\ alive[i] = "live"
    /\ IF ~_isConnected[i]
       THEN /\ step' = Step("close", i, NoEnvelope, _peers[i], <<>>, <<>>, "ok")
            /\ UNCHANGED <<_isConnected, _heartbeatInterval, chan>>
       ELSE LET posted == <<_sendInternalMessage(i, DISCONNECT)>>
            IN  /\ CanPost(i, posted)
                /\ chan' = Detach(Post(chan, i, posted, {x \in Ids : Listening(x)}), i)
                /\ _heartbeatInterval' = [_heartbeatInterval EXCEPT ![i] = <<>>]
                /\ _isConnected' = [_isConnected EXCEPT ![i] = FALSE]
                /\ step' = Step("close", i, NoEnvelope, _peers[i], <<>>, posted, "ok")
    /\ UNCHANGED <<now, alive, _registrationId, _peers, cbThrows, _eventListeners, sends, foreign, unloads>>

\* The beforeunload handler of i; postMessage on a closed channel throws
BeforeUnload(i) ==
    /\ alive[i] = "live"
    /\ unloads < MaxUnloads
    /\ unloads' = unloads + 1
    /\ LET posted == IF _isConnected[i] THEN <<_sendInternalMessage(i, DISCONNECT)>> ELSE <<>>
       IN  /\ CanPost(i, posted)
           /\ chan' = Post(chan, i, posted, {x \in Ids : Listening(x)})
           /\ step' = Step("beforeunload", i, NoEnvelope, _peers[i], <<>>, posted,
                            IF _isConnected[i] THEN "ok" ELSE "InvalidStateError")
    /\ UNCHANGED <<now, alive, _registrationId, _isConnected, _peers, _heartbeatInterval,
                   cbThrows, _eventListeners, sends, foreign>>

\* The browsing context of i goes away (tab closed or crashed): its channel
\* object and its timer go with it
Destroy(i) ==
    /\ alive[i] = "live"
    /\ alive' = [alive EXCEPT ![i] = "gone"]
    /\ chan' = Detach(chan, i)
    /\ UNCHANGED <<step, now, _registrationId, _isConnected, _peers, _heartbeatInterval,
                   cbThrows, _eventListeners, sends, foreign, unloads>>

\* Time passes
AdvanceClock ==
    /\ InFlight <= MaxLate
    /\ now + ClockStep <= MaxTime
    /\ now' = now + ClockStep
    /\ UNCHANGED <<step, alive, _registrationId, _isConnected, _peers, _heartbeatInterval,
                   cbThrows, _eventListeners, chan, sends, foreign, unloads>>

\* Time goes on past the bound of the clock: the code compares times only
\* through now - lastSeen > 15000 and through the period of the timer, so
\* every time is moved back by one step of the clock, and a lastSeen that is
\* stale already stays stale
Rebase ==
    /\ now = MaxTime
    /\ InFlight = 0
    /\ now' = now - ClockStep
    /\ _heartbeatInterval' =
            [i \in Ids |-> IF _heartbeatInterval[i] = <<>> THEN <<>>
                           ELSE <<IF _heartbeatInterval[i][1] > ClockStep
                                  THEN _heartbeatInterval[i][1] - ClockStep ELSE 0>>]
    /\ _peers' =
            [i \in Ids |->
                [k \in 1..Len(_peers[i]) |->
                    [_peers[i][k] EXCEPT !.lastSeen =
                        IF @ > 0 THEN @ - ClockStep ELSE 0 - ClockStep]]]
    /\ UNCHANGED <<step, alive, _registrationId, _isConnected, cbThrows, _eventListeners,
                   chan, sends, foreign, unloads>>

\* Another script posts an envelope of its own making on the channel
ForeignPost(message) ==
    /\ foreign < MaxForeign
    /\ foreign' = foreign + 1
    /\ CanPost(EXT, <<message>>)
    /\ chan' = Post(chan, EXT, <<message>>, {x \in Ids : Listening(x)})
    /\ UNCHANGED <<step, now, alive, _registrationId, _isConnected, _peers, _heartbeatInterval,
                   cbThrows, _eventListeners, sends, unloads>>

(* ---------------------------------------------------------------------- *)
(* Specifications                                                          *)
(* ---------------------------------------------------------------------- *)
Pair == {"tc_a", "tc_b"}

\* Envelopes of tc_b that another script posts again
Replays ==
    {Envelope("tc_b", NULL, type, [internalId |-> "tc_b", registrationId |-> "r1"]) :
        type \in {REGISTER, DISCOVER_RESPONSE}}

\* Two instances with their timers and the clock; tc_b may fire beforeunload
\* and may be lost; a third tab joins and is lost before it handles anything
Next ==
    \/ Construct("tc_a", NULL, FALSE)
    \/ \E r \in {NULL, "r1"} : Construct("tc_b", r, FALSE)
    \/ \E s \in Sources, d \in Pair : Deliver(s, d)
    \/ \E i \in Pair : Tick(i)
    \/ BeforeUnload("tc_b")
    \/ Destroy("tc_b")
    \/ \E message \in Replays : ForeignPost(message)
    \/ AdvanceClock

Spec == Init /\ [][Next]_vars

\* Two instances of which tc_b is lost without a Disconnect; the timer of
\* tc_a keeps firing, time passes and the envelopes queued for tc_a are dispatched
NextCrash ==
    \/ Construct("tc_a", NULL, FALSE)
    \/ \E r \in {NULL, "r1"} : Construct("tc_b", r, FALSE)
    \/ \E s \in Sources, d \in Pair : Deliver(s, d)
    \/ \E i \in Pair : Tick(i)
    \/ Destroy("tc_b")
    \/ AdvanceClock

SpecCrash ==
    /\ Init /\ [][NextCrash]_vars
    /\ WF_vars(Tick("tc_a"))
    /\ WF_vars(AdvanceClock)
    /\ WF_vars(\E s \in Sources : Deliver(s, "tc_a"))

\* Three instances joining one after another
NextJoin ==
    \/ \E i \in Ids, r \in RegIds \cup {NULL}, t \in BOOLEAN : Construct(i, r, t)
    \/ \E s \in Sources, d \in Ids : Deliver(s, d)

SpecJoin == Init /\ [][NextJoin]_vars

\* Three instances and a user send
SendTargets == {NULL, "r1"} \cup Ids

NextSend ==
    \/ \E i \in Ids, r \in {NULL, "r1"} : Construct(i, r, FALSE)
    \/ \E s \in Sources, d \in Ids : Deliver(s, d)
    \/ \E i \in Ids, targetId \in SendTargets, type \in UserTypes, payload \in UserPayloads :
            Send(i, targetId, type, payload)

SpecSend == Init /\ [][NextSend]_vars

\* Two instances leaving by close() and by beforeunload
NextLeave ==
    \/ \E i \in Pair, r \in {NULL, "r1"}, t \in BOOLEAN : Construct(i, r, t)
    \/ \E s \in Sources, d \in Pair : Deliver(s, d)
    \/ \E i \in Pair : Close(i)
    \/ \E i \in Pair : BeforeUnload(i)

SpecLeave == Init /\ [][NextLeave]_vars

\* Two instances and another script posting envelopes of its own making
ForeignEnvelopes ==
    {Envelope(from, to, type, [internalId |-> "tc_c", registrationId |-> "r2"]) :
        from \in {"tc_a", "r1", "tc_c"}, to \in {NULL, "tc_a"},
        type \in InternalMessageType \cup UserTypes}

NextOpen ==
    \/ \E i \in Pair, r \in {NULL, "r1"} : Construct(i, r, FALSE)
    \/ \E s \in Sources, d \in Pair : Deliver(s, d)
    \/ \E message \in ForeignEnvelopes : ForeignPost(message)

SpecOpen == Init /\ [][NextOpen]_vars

\* The arguments of send() a user can get wrong: no target, the empty string,
\* an id nobody has, an alias, an internal id; a type that is not a string
\* (NULL), empty, blank, a user type, a type with the internal prefix that is
\* not an internal type; a payload that is or is not serializable
AnyTargets == {NULL, "", "nobody", "r1", "tc_b"}
AnyTypes == {NULL, "", " ", "ping", "__tc_custom"}
AnyPayloads == {[n |-> 1], Cyclic}

\* Two instances, one user call of send() with any arguments, and close()
NextCheck ==
    \/ \E i \in Pair, r \in {NULL, "r1"} : Construct(i, r, FALSE)
    \/ \E s \in Sources, d \in Pair : Deliver(s, d)
    \/ \E i \in Pair, targetId \in AnyTargets, type \in AnyTypes, payload \in AnyPayloads :
            Send(i, targetId, type, payload)
    \/ \E i \in Pair : Close(i)

SpecCheck == Init /\ [][NextCheck]_vars

\* Two instances with their timers and the clock, and close()
NextShut ==
    \/ \E i \in Pair, r \in {NULL, "r1"} : Construct(i, r, FALSE)
    \/ \E s \in Sources, d \in Pair : Deliver(s, d)
    \/ \E i \in Pair : Tick(i)
    \/ \E i \in Pair : Close(i)
    \/ AdvanceClock

SpecShut == Init /\ [][NextShut]_vars

\* The Register of a tab that is lost right after it joined
LostJoin == Envelope("tc_c", NULL, REGISTER, [internalId |-> "tc_c", registrationId |-> "r2"])

\* tc_a, with handlers that throw and its timer, tc_b, which may be lost,
\* and the Register of a third tab that is never heard of again
NextSweep ==
    \/ \E t \in BOOLEAN : Construct("tc_a", NULL, t)
    \/ Construct("tc_b", NULL, FALSE)
    \/ \E ev \in EventTypes : On("tc_a", ev)
    \/ \E s \in Sources, d \in Pair : Deliver(s, d)
    \/ Tick("tc_a")
    \/ Destroy("tc_b")
    \/ ForeignPost(LostJoin)
    \/ AdvanceClock

SpecSweep == Init /\ [][NextSweep]_vars

\* Envelopes that come back to tc_a: its own Register and Discover-Response,
\* posted again by another script under the sender id of tc_b or of nobody
Echoes ==
    {Envelope(from, NULL, type, [internalId |-> "tc_a", registrationId |-> r]) :
        from \in {"tc_b", "tc_c"}, type \in {REGISTER, DISCOVER_RESPONSE}, r \in {NULL, "r1"}}

\* Two instances that may share a registrationId, and an echo
NextEcho ==
    \/ \E i \in Pair, r \in {NULL, "r1"} : Construct(i, r, FALSE)
    \/ \E s \in Sources, d \in Pair : Deliver(s, d)
    \/ \E message \in Echoes : ForeignPost(message)

SpecEcho == Init /\ [][NextEcho]_vars

\* Two instances that stay connected, whose timers keep firing for ever and
\* whose envelopes are all delivered; the page of tc_b may fire beforeunload
\* and stay
NextConverge ==
    \/ \E i \in Pair : Construct(i, NULL, FALSE)
    \/ \E s \in Sources, d \in Pair : Deliver(s, d)
    \/ \E i \in Pair : Tick(i)
    \/ BeforeUnload("tc_b")
    \/ AdvanceClock
    \/ Rebase

SpecConverge ==
    /\ Init /\ [][NextConverge]_vars
    /\ \A i \in Pair : WF_vars(Construct(i, NULL, FALSE))
    /\ \A i \in Pair : WF_vars(Tick(i))
    /\ \A i \in Pair : WF_vars(\E s \in Sources : Deliver(s, i))
    /\ WF_vars(AdvanceClock)
    /\ WF_vars(Rebase)

\* Three instances, of which tc_b is announced once more under another
\* registrationId, and one step of the clock
NextRefresh ==
    \/ \E i \in {"tc_a", "tc_b"} : Construct(i, NULL, FALSE)
    \/ Construct("tc_c", "r2", FALSE)
    \/ \E s \in Sources, d \in Ids : Deliver(s, d)
    \/ \E message \in Replays : ForeignPost(message)
    \/ now = 0 /\ AdvanceClock

SpecRefresh == Init /\ [][NextRefresh]_vars

\* Two instances, their first ticks and one user message; every envelope that
\* is queued for a connected instance is eventually dispatched
NextQuiesce ==
    \/ \E i \in Pair, r \in {NULL, "r1"} : Construct(i, r, FALSE)
    \/ \E s \in Sources, d \in Pair : Deliver(s, d)
    \/ \E i \in Pair : Tick(i)
    \/ \E i \in Pair, targetId \in {NULL, "tc_a", "tc_b"}, type \in UserTypes, payload \in UserPayloads :
            Send(i, targetId, type, payload)
    \/ now = 0 /\ AdvanceClock

SpecQuiesce ==
    /\ Init /\ [][NextQuiesce]_vars
    /\ \A d \in Pair : WF_vars(\E s \in Sources : Deliver(s, d))

\* Payloads a user can pass to send() that look like the payload of an
\* internal envelope: one names an instance that does not exist, one names tc_b
SpoofPayloads ==
    {[internalId |-> "tc_c", registrationId |-> "r2"],
     [internalId |-> "tc_b", registrationId |-> NULL]}

\* Two instances whose users call send() with a reserved type
NextSpoof ==
    \/ \E i \in Pair, r \in {NULL, "r1"} : Construct(i, r, FALSE)
    \/ \E s \in Sources, d \in Pair : Deliver(s, d)
    \/ \E i \in Pair, targetId \in {NULL, "tc_a"}, type \in InternalMessageType,
          payload \in SpoofPayloads :
            Send(i, targetId, type, payload)

SpecSpoof == Init /\ [][NextSpoof]_vars

\* Two instances; the user of tc_a adds listeners that throw, the error event
\* included, and tc_b joins, sends a user message and closes
NextError ==
    \/ \E t \in BOOLEAN : Construct("tc_a", NULL, t)
    \/ Construct("tc_b", NULL, FALSE)
    \/ \E ev \in AllEventTypes : On("tc_a", ev)
    \/ \E s \in Sources, d \in Pair : Deliver(s, d)
    \/ \E type \in UserTypes, payload \in UserPayloads : Send("tc_b", NULL, type, payload)
    \/ Close("tc_b")

SpecError == Init /\ [][NextError]_vars

(* ---------------------------------------------------------------------- *)
(* Vocabulary of the properties                                            *)
(* ---------------------------------------------------------------------- *)
\* registrationId if set, else internalId
Preferred(i) == OrElse(_registrationId[i], i)

\* The notifications of kind ev among notes, raised through _emitEvent
Raised(notes, ev) == SelectSeq(notes, LAMBDA n : n.via = "emit" /\ n.ev = ev)

\* The configured callback invocations of kind ev among notes
Called(notes, ev) == SelectSeq(notes, LAMBDA n : n.via = "callback" /\ n.ev = ev)

\* The last entry point was the dispatch of an envelope
Delivered == step.op = "deliver"

\* The envelope of the last dispatch names its receiver as its sender
FromSelf == step.msg.from = step.self \/ step.msg.from = _registrationId[step.self]

UserEnvelope == step.msg.type \notin InternalMessageType

\* The last entry point raised no notification, sent nothing and left the table alone
Silent == step.notes = <<>> /\ step.posted = <<>> /\ _peers[step.self] = step.before

(* ---------------------------------------------------------------------- *)
(* Properties                                                              *)
(* ---------------------------------------------------------------------- *)

\* C1 (self-silence): the dispatch of an envelope whose from is the
\* receiver's internalId or registrationId raises no notification, sends no
\* envelope and leaves the receiver's peer table unchanged.
C1_SelfSilence == (Delivered /\ FromSelf) => Silent

\* An envelope carrying the receiver's own internal id as from, which would
\* have registered a new peer, was dispatched
C1_Witness ==
    /\ Delivered /\ step.msg.from = step.self
    /\ step.msg.type = REGISTER /\ step.msg.payload.internalId # step.self

\* C2 (broadcast delivery), as claimed: a successful send(null, type, payload)
\* of S hands one envelope with from = S's preferred identifier to every other
\* open channel and raises nothing at S; and every dispatch of a user envelope
\* with to = null raises exactly one message notification carrying it,
\* whatever the registrationIds of the instances.
C2_BroadcastDelivery ==
    /\ (step.op = "send" /\ step.result = "ok" /\ step.msg.to = NULL) =>
            /\ step.notes = <<>>
            /\ Len(step.posted) = 1
            /\ step.posted[1].from = Preferred(step.self)
            /\ step.posted[1].type = step.msg.type
            /\ step.posted[1].payload = step.msg.payload
    /\ (Delivered /\ UserEnvelope /\ step.msg.to = NULL) =>
            Raised(step.notes, "message") = <<Note("emit", "message", step.msg)>>

\* C3 (targeted delivery), as claimed: the dispatch of a user envelope with a
\* non-null to raises one message notification at an instance whose internalId
\* or registrationId equals to, and is silent at every other instance.
C3_TargetedDelivery ==
    (Delivered /\ UserEnvelope /\ step.msg.to # NULL) =>
        IF step.msg.to = step.self \/ step.msg.to = _registrationId[step.self]
        THEN Raised(step.notes, "message") = <<Note("emit", "message", step.msg)>>
        ELSE Silent

\* C4 (join convergence): at the end of the dispatch of B's Register envelope
\* at A, A's table has an entry for B's internalId, A's peers set contains B's
\* preferred identifier and exactly one peerConnected notification, carrying
\* that identifier, has been raised.
C4_JoinConvergence ==
    (Delivered /\ step.msg.type = REGISTER) =>
        LET b == step.msg.payload.internalId
            peerId == OrElse(step.msg.payload.registrationId, b)
        IN  /\ MapHas(_peers[step.self], b)
            /\ peerId \in peers(step.self)
            /\ Raised(step.notes, "peerConnected")
                    = <<Note("emit", "peerConnected", [peerId |-> peerId])>>
            /\ Called(step.notes, "peerConnected")
                    = <<Note("callback", "peerConnected", [peerId |-> peerId])>>

\* The Register of an instance with a registrationId was dispatched at an
\* instance whose onPeerConnected callback throws
C4_Witness ==
    /\ Delivered /\ step.msg.type = REGISTER
    /\ step.msg.payload.registrationId # NULL
    /\ cbThrows[step.self]

AllListening == \A i \in Ids : Listening(i)
ChannelEmpty == \A s \in Sources, d \in Ids : chan[s][d] = <<>>
DistinctPreferred == \A i, j \in Ids : i # j => Preferred(i) # Preferred(j)

\* C5 (three-instance settlement): with three instances of pairwise distinct
\* preferred identifiers constructed one after another, once the channel is
\* empty each peers set is exactly the two preferred identifiers of the others.
C5_Settlement ==
    (AllListening /\ ChannelEmpty /\ DistinctPreferred) =>
        \A i \in Ids :
            /\ peers(i) = {Preferred(j) : j \in Ids \ {i}}
            /\ Cardinality(peers(i)) = 2

\* All three have joined and every envelope has been dispatched; two of them
\* have registrationIds
C5_Witness ==
    /\ AllListening /\ ChannelEmpty /\ DistinctPreferred
    /\ _registrationId["tc_a"] = "r1" /\ _registrationId["tc_c"] = "r2"
    /\ _registrationId["tc_b"] = NULL

\* C6 (graceful leave): the dispatch at A of the Disconnect envelope of a
\* known peer B removes B's entry from A's table and raises exactly one
\* peerDisconnected notification with B's preferred identifier, in that same
\* step; nothing else in the table changes.
C6_GracefulLeave ==
    (Delivered /\ step.msg.type = DISCONNECT /\ MapHas(step.before, step.msg.payload.internalId)) =>
        LET b == step.msg.payload.internalId
            was == MapGet(step.before, b)
            peerId == OrElse(was.registrationId, was.internalId)
        IN  /\ ~MapHas(_peers[step.self], b)
            /\ _peers[step.self] = MapDelete(step.before, b)
            /\ Raised(step.notes, "peerDisconnected")
                    = <<Note("emit", "peerDisconnected", [peerId |-> peerId])>>
            /\ Called(step.notes, "peerDisconnected")
                    = <<Note("callback", "peerDisconnected", [peerId |-> peerId])>>

\* B, known to A under its registrationId, has called close() and A has
\* dispatched the Disconnect
C6_Witness ==
    /\ Delivered /\ step.msg.type = DISCONNECT
    /\ MapHas(step.before, step.msg.payload.internalId)
    /\ step.msg.payload.registrationId # NULL
    /\ alive[step.msg.payload.internalId] = "live"
    /\ ~_isConnected[step.msg.payload.internalId]

\* The entry of internal id b in the table the last entry point found
Was(b) == MapGet(step.before, b)

\* The last entry point was a scheduler tick (_sendHeartbeat)
Ticked == step.op = "tick"

\* The peerDisconnected notification for the entry p
Left(p) == Note("emit", "peerDisconnected", [peerId |-> OrElse(p.registrationId, p.internalId)])

\* The entries the last entry point removed, in table order
Removed == SelectSeq(step.before, LAMBDA p : ~MapHas(_peers[step.self], p.internalId))

C10_IdempotentRemoval ==
    /\ (Delivered /\ ~FromSelf /\ step.msg.type = DISCONNECT
            /\ ~MapHas(step.before, step.msg.payload.internalId)) => Silent
    /\ ((Delivered /\ step.msg.type = DISCONNECT) \/ Ticked) =>
            /\ Raised(step.notes, "peerDisconnected")
                    = [k \in 1..Len(Removed) |-> Left(Removed[k])]
            /\ _peers[step.self]
                    = SelectSeq(step.before, LAMBDA p : p \notin Range(Removed))

\* A Disconnect naming a peer that a tick had already removed as stale was
\* dispatched
C10_Witness ==
    /\ Delivered /\ ~FromSelf /\ step.msg.type = DISCONNECT
    /\ ~MapHas(step.before, step.msg.payload.internalId)
    /\ step.time - StaleTimeoutMs > 0

\* tc_b is gone, nothing of it is still queued for tc_a, and tc_a last saw
\* it early enough for the staleness threshold to pass within MaxTime
SilentForGood ==
    /\ alive["tc_b"] = "gone"
    /\ chan["tc_b"]["tc_a"] = <<>>
    /\ MapHas(_peers["tc_a"], "tc_b")
    /\ MapGet(_peers["tc_a"], "tc_b").lastSeen + StaleTimeoutMs + ClockStep <= MaxTime

\* A tick raises one peerDisconnected notification per entry it removes
OnePerRemoval ==
    Ticked => Raised(step.notes, "peerDisconnected") = [k \in 1..Len(Removed) |-> Left(Removed[k])]

\* The tick of tc_a that removes the lost tc_b raises one notification, for tc_b
OneForTheLost ==
    (Ticked /\ step.self = "tc_a" /\ alive["tc_b"] = "gone"
        /\ MapHas(step.before, "tc_b") /\ ~MapHas(_peers["tc_a"], "tc_b")) =>
            Raised(step.notes, "peerDisconnected") = <<Left(Was("tc_b"))>>

\* C7 (failure-detected leave): if B is in A's table and B sends nothing any
\* more while A stays connected and its timer keeps firing, A eventually
\* removes B; the tick that removes B raises exactly one peerDisconnected
\* notification for B, and no tick raises one for a peer that is not in the table.
C7_FailureDetectedLeave ==
    /\ SilentForGood ~> ~MapHas(_peers["tc_a"], "tc_b")
    /\ [][OnePerRemoval' /\ OneForTheLost']_vars

\* A tick of tc_a removed the lost tc_b, known under its registrationId
C7_Witness ==
    /\ Ticked /\ step.self = "tc_a" /\ alive["tc_b"] = "gone"
    /\ MapHas(step.before, "tc_b") /\ ~MapHas(_peers["tc_a"], "tc_b")
    /\ Was("tc_b").registrationId = "r1"

\* The last entry point was a call of send()
Sent == step.op = "send"

\* The types that are not a non-empty string
BadTypes == {NULL, ""}

\* The step is a call of send(): the call counter moves
SendStep == sends' = sends + 1

\* What an instance holds besides the ghost variables of the model
InstanceState == <<_registrationId, _isConnected, _peers, _heartbeatInterval, cbThrows, _eventListeners>>

\* C11 (PeerNotFound check), as claimed: on a connected instance, with a valid
\* type and payload and any non-null targetId, the empty string included,
\* send fails with PeerNotFound if and only if no entry of the table has
\* internalId or registrationId equal to targetId, and then hands no envelope
\* to the transport.
C11_PeerNotFound ==
    (/\ Sent /\ step.result # "CommunicatorClosedError"
     /\ step.msg.type = "ping" /\ step.msg.payload # Cyclic
     /\ step.msg.to # NULL) =>
        /\ (step.result = "PeerNotFoundError") <=> (_findPeerByAnyId(step.before, step.msg.to) = <<>>)
        /\ step.result = "PeerNotFoundError" => step.posted = <<>>

\* C12 (InvalidMessage check): on a connected instance, send with a type that
\* is not a non-empty string or with a payload that cannot be serialized
\* fails with InvalidMessage for every targetId, known or unknown; it hands no
\* envelope to the transport and changes nothing the instance holds.
C12_InvalidMessage ==
    /\ [](( /\ Sent /\ _isConnected[step.self]
            /\ (step.msg.type \in BadTypes \/ step.msg.payload = Cyclic)) =>
                (step.result = "InvalidMessageError" /\ step.posted = <<>>))
    /\ [][(SendStep /\ step'.result = "InvalidMessageError") =>
                UNCHANGED <<InstanceState, chan>>]_vars

\* send() with an unserializable payload to an id nobody has failed with
\* InvalidMessage on a connected instance
C12_Witness ==
    /\ Sent /\ _isConnected[step.self] /\ step.result = "InvalidMessageError"
    /\ step.msg.payload = Cyclic /\ step.msg.type = "ping" /\ step.msg.to = "nobody"

\* C13 (closed instance): after close() every send fails with the
\* closed-instance error whatever its arguments and hands no envelope to the
\* transport; and no step makes isConnected true again once it is false.
C13_Closed ==
    /\ []((Sent /\ ~_isConnected[step.self]) =>
                (step.result = "CommunicatorClosedError" /\ step.posted = <<>>))
    /\ [][\A i \in Ids : (alive[i] # "unborn" /\ ~_isConnected[i]) => ~_isConnected'[i]]_vars

\* send() with an invalid type and an unknown target was called on a closed instance
C13_Witness ==
    /\ Sent /\ ~_isConnected[step.self]
    /\ step.msg.type = "" /\ step.msg.to = "nobody"

\* close() has been called on i
Closed(i) == alive[i] = "live" /\ ~_isConnected[i]

\* C14 (close() is idempotent and ordered): the first close() on a connected
\* instance hands exactly one Disconnect envelope naming its own internalId
\* to the transport, which every other open channel receives, then cancels
\* the scheduler, detaches and sets isConnected to false; every later
\* close() sends no envelope and changes no state.
C14_CloseOnce ==
    [][\A i \in Ids : Close(i) =>
        IF _isConnected[i]
        THEN /\ step'.posted = <<[from |-> i, to |-> NULL, type |-> DISCONNECT,
                                  payload |-> [internalId |-> i, registrationId |-> _registrationId[i]],
                                  timestamp |-> now]>>
             /\ \A d \in Ids \ {i} : Listening(d) => chan'[i][d] = chan[i][d] \o step'.posted
             /\ \A s \in Sources : chan'[s][i] = <<>>
             /\ _heartbeatInterval'[i] = <<>>
             /\ ~_isConnected'[i]
             /\ _peers' = _peers
        ELSE /\ step'.posted = <<>>
             /\ UNCHANGED <<InstanceState, chan>>]_vars

\* close() was called on an instance that was closed already
C14_Witness ==
    /\ step.op = "close" /\ step.posted = <<>>
    /\ Closed(step.self)

\* C15 (no tick after close): once close() has returned the scheduler is
\* cancelled, and the instance hands no envelope to the transport, leaves its
\* peer table alone and raises no notification, whatever ticks were due and
\* whatever envelopes were queued for it.
C15_NoTickAfterClose ==
    /\ [](\A i \in Ids : Closed(i) => _heartbeatInterval[i] = <<>>)
    /\ [][\A i \in Ids : Closed(i) =>
            /\ _peers'[i] = _peers[i]
            /\ \A d \in Ids : Len(chan'[i][d]) <= Len(chan[i][d])
            /\ (step' # step /\ step'.self = i) => (step'.notes = <<>> /\ step'.posted = <<>>)]_vars

\* An instance is closed and holds an entry a sweep would remove
C15_Witness ==
    \E i \in Ids :
        /\ Closed(i)
        /\ \E k \in 1..Len(_peers[i]) : now - _peers[i][k].lastSeen > StaleTimeoutMs

\* C20 (table discarded on close), as claimed: after close() has returned the
\* peer table of the instance is empty and its peers accessor returns the
\* empty set.
C20_TableDiscarded ==
    \A i \in Ids : Closed(i) => (_peers[i] = <<>> /\ peers(i) = {})

\* The types of the model that begin with the internal-protocol prefix __tc_
ReservedPrefix == InternalMessageType \cup {"__tc_custom"}

\* The last dispatch raised no message notification and did not call onMessage
NotSurfaced == Raised(step.notes, "message") = <<>> /\ Called(step.notes, "message") = <<>>

\* C16 (internal traffic is never surfaced): the dispatch of an envelope whose
\* type is one of the six internal types raises no message notification and
\* does not call the message callback, whatever its to field.
C16_InternalNeverSurfaced ==
    (Delivered /\ step.msg.type \in InternalMessageType) => NotSurfaced

\* An internal envelope addressed to its receiver, from somebody else, was dispatched
C16_Witness ==
    /\ Delivered /\ step.msg.type \in InternalMessageType
    /\ step.msg.to = step.self /\ ~FromSelf

\* C17 (reserved prefix), as claimed: the dispatch of an envelope whose type
\* begins with the internal-protocol prefix, one of the six internal types or
\* not, raises no message notification and does not call the message callback.
C17_ReservedPrefix ==
    (Delivered /\ step.msg.type \in ReservedPrefix) => NotSurfaced

\* C19 (envelope sender field), as claimed: every envelope an instance hands
\* to the transport has from equal to its internalId.
C19_FromIsInternalId ==
    \A k \in 1..Len(step.posted) : step.posted[k].from = step.self

\* C19, amended: every internal envelope an instance hands to the transport
\* has from equal to its internalId; the user envelope of send() has from
\* equal to its registrationId if it has one, and to its internalId otherwise.
C19_SenderField ==
    \A k \in 1..Len(step.posted) :
        IF Sent
        THEN step.posted[k].from = OrElse(_registrationId[step.self], step.self)
        ELSE /\ step.posted[k].type \in InternalMessageType
             /\ step.posted[k].from = step.self
             /\ step.posted[k].payload.internalId = step.self

\* An instance with a registrationId that had answered a Discover sent a user envelope
C19_Witness ==
    /\ Sent /\ step.result = "ok" /\ Len(step.posted) = 1
    /\ _registrationId[step.self] # NULL
    /\ step.before # <<>>

\* The listeners of ev that threw in the last entry point
ListenerFailures(ev) ==
    IF ev \in _eventListeners[step.self] THEN Len(Raised(step.notes, ev)) ELSE 0

\* The configured callbacks of ev that threw in the last entry point
CallbackFailures(ev) ==
    IF cbThrows[step.self] THEN Len(Called(step.notes, ev)) ELSE 0

\* The entries of the table the last entry point found that were stale then
StaleThen == SelectSeq(step.before, LAMBDA p : step.time - p.lastSeen > StaleTimeoutMs)

\* C18 (handler-failure isolation), as claimed: in the dispatch of an
\* envelope and in a scheduler tick, no failure of a listener or of a
\* configured callback leaves the entry point, each failure is turned into
\* one error notification, the configured callback is still called after a
\* listener that threw, and a tick still removes every stale peer of its sweep.
C18_HandlerIsolation ==
    (Delivered \/ Ticked) =>
        /\ step.result = "ok"
        /\ Len(Raised(step.notes, "error"))
                = ListenerFailures("message") + ListenerFailures("peerConnected")
                    + ListenerFailures("peerDisconnected")
                    + CallbackFailures("message") + CallbackFailures("peerConnected")
                    + CallbackFailures("peerDisconnected")
        /\ \A ev \in EventTypes : Len(Called(step.notes, ev)) = Len(Raised(step.notes, ev))
        /\ Ticked => \A k \in 1..Len(StaleThen) : ~MapHas(_peers[step.self], StaleThen[k].internalId)

\* C21 (no self entry): the peer table of an instance never has an entry
\* whose internalId is its own, whatever the instances on the channel send,
\* instances with its registrationId included, and also when its own
\* Register or Discover-Response comes back to it.
C21_NoSelfEntry == \A i \in Ids : ~MapHas(_peers[i], i)

\* tc_a, which shares its registrationId with tc_b, dispatched a Register
\* that names tc_a itself and was sent under another id
C21_Witness ==
    /\ Delivered /\ step.self = "tc_a" /\ ~FromSelf
    /\ step.msg.type = REGISTER /\ step.msg.payload.internalId = "tc_a"
    /\ _registrationId["tc_a"] = "r1" /\ _registrationId["tc_b"] = "r1"

\* Both instances of the pair are connected
BothConnected == \A i \in Pair : Listening(i)

\* Each instance of the pair has the other in its peer table
MutualMembership ==
    MapHas(_peers["tc_a"], "tc_b") /\ MapHas(_peers["tc_b"], "tc_a")

\* C22 (membership convergence): when tc_a and tc_b both stay connected,
\* their timers keep firing and every envelope is delivered, the system
\* eventually reaches and stays in a state where each is in the table of the
\* other, also after one has removed the other by a sweep or by a Disconnect
\* the other sent without closing.
C22_MembershipConvergence == <>[](BothConnected /\ MutualMembership)

\* Once tc_a has removed tc_b and no Register or Discover-Response of tc_b is
\* on its way to tc_a, no step of any instance puts tc_b back
C22_NeverRelearned ==
    [][(/\ BothConnected /\ ~MapHas(_peers["tc_a"], "tc_b")
        /\ \A k \in DOMAIN chan["tc_b"]["tc_a"] :
              chan["tc_b"]["tc_a"][k].type \notin {REGISTER, DISCOVER_RESPONSE, DISCOVER})
       => ~MapHas(_peers["tc_a"], "tc_b")']_vars

\* The internal ids the last entry point put into the table, and took out of it
KeysAdded == Keys(_peers[step.self]) \ Keys(step.before)

KeysRemoved == Keys(step.before) \ Keys(_peers[step.self])

\* The entries the last entry point inserted, in table order
Inserted == SelectSeq(_peers[step.self], LAMBDA p : p.internalId \in KeysAdded)

\* The last entry point dispatched an envelope of one of the types, sent by another instance
Dispatched(types) == Delivered /\ ~FromSelf /\ step.msg.type \in types

\* The peerConnected notification for the entry p
Joined(p) == Note("emit", "peerConnected", [peerId |-> OrElse(p.registrationId, p.internalId)])

\* An internal id enters the table only in the dispatch of a Register or
\* Discover-Response carrying it and leaves it only in the dispatch of a
\* Disconnect naming it or in a tick that found it stale; one peerConnected is
\* raised per id that enters and one peerDisconnected per id that leaves
C23_Alternation ==
    (Delivered \/ Ticked) =>
        /\ step.self \notin Keys(_peers[step.self])
        /\ \A X \in KeysAdded :
                Dispatched({REGISTER, DISCOVER_RESPONSE}) /\ step.msg.payload.internalId = X
        /\ \A X \in KeysRemoved :
                \/ Dispatched({DISCONNECT}) /\ step.msg.payload.internalId = X
                \/ Ticked /\ Was(X) \in Range(StaleThen)
        /\ Raised(step.notes, "peerConnected")
                = [k \in 1..Len(Inserted) |-> Joined(Inserted[k])]
        /\ Raised(step.notes, "peerDisconnected")
                = [k \in 1..Len(Removed) |-> Left(Removed[k])]

\* C23 (table membership invariant): for every internal id X other than A's
\* own, X is in A's table exactly when A has dispatched a Register or
\* Discover-Response carrying X and, since the one that inserted X, neither a
\* Disconnect naming X nor a tick that found X stale: every such Register puts
\* X in, every such Disconnect and every such tick takes X out, nothing else
\* changes the keys, and the peerConnected and peerDisconnected notifications
\* for X alternate with the insertions and removals.
C23_TableMembership ==
    /\ C23_Alternation
    /\ (Dispatched({REGISTER, DISCOVER_RESPONSE}) /\ step.msg.payload.internalId # step.self) =>
            MapHas(_peers[step.self], step.msg.payload.internalId)
    /\ Dispatched({DISCONNECT}) => ~MapHas(_peers[step.self], step.msg.payload.internalId)
    /\ Ticked => \A k \in 1..Len(StaleThen) : ~MapHas(_peers[step.self], StaleThen[k].internalId)

\* The entries of the table other than the one of X, in table order
Others(tbl, X) == SelectSeq(tbl, LAMBDA p : p.internalId # X)

\* C24 (known-to-known self-loop): the dispatch of a Register or
\* Discover-Response for an internal id that is already in the table raises
\* no peerConnected notification, leaves the keys of the table and every
\* other entry as they were, sets the entry's lastSeen to the receipt time
\* and its registrationId to the one the envelope carries, null when it
\* carries none.
C24_KnownSelfLoop ==
    (/\ Dispatched({REGISTER, DISCOVER_RESPONSE})
     /\ MapHas(step.before, step.msg.payload.internalId)) =>
        LET X == step.msg.payload.internalId
        IN  /\ Raised(step.notes, "peerConnected") = <<>>
            /\ Called(step.notes, "peerConnected") = <<>>
            /\ [k \in 1..Len(_peers[step.self]) |-> _peers[step.self][k].internalId]
                    = [k \in 1..Len(step.before) |-> step.before[k].internalId]
            /\ Others(_peers[step.self], X) = Others(step.before, X)
            /\ MapGet(_peers[step.self], X)
                    = PeerInfo(X, OrElse(step.msg.payload.registrationId, NULL), step.time)

\* A known peer, listed next to another one, was announced again later and
\* under another registrationId than the one in its entry
C24_Witness ==
    /\ Dispatched({REGISTER, DISCOVER_RESPONSE})
    /\ MapHas(step.before, step.msg.payload.internalId)
    /\ Len(step.before) = 2
    /\ Was(step.msg.payload.internalId).registrationId # step.msg.payload.registrationId
    /\ Was(step.msg.payload.internalId).lastSeen < step.time

\* C25 (rejoin after removal): the dispatch of a Register or Discover-Response
\* carrying an internal id X that is not in the table, whether X was never
\* seen or was removed by a Disconnect or by a sweep, appends a fresh entry
\* made of the envelope and the receipt time only and raises peerConnected
\* once, event then callback, with the preferred identifier of X.
C25_RejoinAfterRemoval ==
    (/\ Dispatched({REGISTER, DISCOVER_RESPONSE})
     /\ step.msg.payload.internalId # step.self
     /\ ~MapHas(step.before, step.msg.payload.internalId)) =>
        LET X == step.msg.payload.internalId
            entry == PeerInfo(X, OrElse(step.msg.payload.registrationId, NULL), step.time)
        IN  /\ _peers[step.self] = Append(step.before, entry)
            /\ step.notes = <<Joined(entry),
                              Note("callback", "peerConnected", Joined(entry).data)>>

\* tc_a had listed tc_b without a registrationId and removed it on the
\* Disconnect of its beforeunload; tc_b is announced again, later and under
\* registrationId r1, and enters the table of tc_a again
C25_Witness ==
    /\ Dispatched({REGISTER, DISCOVER_RESPONSE})
    /\ step.self = "tc_a" /\ step.msg.payload.internalId = "tc_b"
    /\ step.msg.payload.registrationId = "r1" /\ _registrationId["tc_b"] = NULL
    /\ unloads = 1 /\ alive["tc_b"] = "live" /\ chan["tc_b"]["tc_a"] = <<>>
    /\ step.before = <<>> /\ step.time > 0
    /\ MapHas(_peers["tc_a"], "tc_b")

\* C26 (sweep exactness): a tick removes exactly the entries whose lastSeen is
\* more than the staleness threshold before the tick, raises exactly one
\* peerDisconnected notification per removed entry, with the preferred
\* identifier last recorded in it, and keeps every other entry unchanged.
C26_SweepExactness ==
    Ticked =>
        /\ _peers[step.self]
                = SelectSeq(step.before, LAMBDA p : step.time - p.lastSeen <= StaleTimeoutMs)
        /\ Raised(step.notes, "peerDisconnected")
                = [k \in 1..Len(StaleThen) |-> Left(StaleThen[k])]

\* The internal envelope of the given type that the instance of the last
\* entry point sends
Reply(type) ==
    [from |-> step.self, to |-> NULL, type |-> type,
     payload |-> [internalId |-> step.self, registrationId |-> _registrationId[step.self]],
     timestamp |-> step.time]

\* What the dispatch of an envelope sends: one Discover-Response for a
\* Discover of another instance, one Heartbeat-Response for a Heartbeat, and
\* nothing for any other envelope
ReplyRule ==
    Delivered =>
        step.posted = (IF Dispatched({DISCOVER}) THEN <<Reply(DISCOVER_RESPONSE)>>
                       ELSE IF Dispatched({HEARTBEAT}) THEN <<Reply(HEARTBEAT_RESPONSE)>>
                       ELSE <<>>)

\* C27 (request/reply rule and quiescence): an instance answers a Discover
\* of another instance with exactly one Discover-Response carrying its own
\* internalId and registrationId and a Heartbeat with exactly one
\* Heartbeat-Response, and sends nothing on a Register, Disconnect,
\* Discover-Response, Heartbeat-Response or user envelope; so, once the
\* ticks, constructions and user sends have ended, the channel becomes and
\* stays empty after finitely many deliveries.
C27_ReplyAndQuiescence == []ReplyRule /\ <>[]ChannelEmpty

\* An instance with a registrationId answered the Heartbeat of the other one
C27_Witness ==
    /\ Dispatched({HEARTBEAT}) /\ _registrationId[step.self] = "r1"
    /\ Len(step.posted) = 1 /\ ~ChannelEmpty

\* The last entry point handed a Disconnect naming its own instance to the transport
SaidGoodbye ==
    /\ step.op \in {"close", "beforeunload"}
    /\ \E k \in 1..Len(step.posted) :
            /\ step.posted[k].type = DISCONNECT
            /\ step.posted[k].payload.internalId = step.self

\* C28 (Disconnect implies closed): an instance that has handed a Disconnect
\* naming itself to the transport, from close() or from the beforeunload
\* handler, is no longer connected and has no heartbeat timer left, so that
\* it sends no Heartbeat, reply or user envelope afterwards.
C28_DisconnectImpliesClosed ==
    SaidGoodbye => (~_isConnected[step.self] /\ _heartbeatInterval[step.self] = <<>>)

\* After a Disconnect sent on beforeunload the page stayed, and the timer of
\* the instance fired and sent a Heartbeat
C28_HeartbeatAfterGoodbye ==
    /\ Ticked /\ step.self = "tc_b" /\ unloads = 1
    /\ \E k \in 1..Len(step.posted) : step.posted[k].type = HEARTBEAT

\* After close() an instance is closed and its timer is cleared
C28_ClosedByClose ==
    (SaidGoodbye /\ step.op = "close") =>
        (~_isConnected[step.self] /\ _heartbeatInterval[step.self] = <<>>)

\* The envelope of the last dispatch is not one that construction, a tick, a
\* reply, close() or beforeunload produces: those carry the internal id of
\* their sender both as from and in the payload
NotOfTheProtocol ==
    Delivered /\ (step.msg.from \notin Ids \/ step.msg.payload.internalId # step.msg.from)

\* C29 (send() cannot drive the presence protocol): the dispatch of an
\* envelope produced by a successful send(), whatever type and payload send()
\* accepted, leaves the peer table of the receiver as it was and raises no
\* peerConnected and no peerDisconnected notification.
C29_SendCannotDrivePresence ==
    NotOfTheProtocol =>
        /\ _peers[step.self] = step.before
        /\ Raised(step.notes, "peerConnected") = <<>>
        /\ Raised(step.notes, "peerDisconnected") = <<>>

\* The send() of tc_b, which is registered as r1, made tc_a remove tc_b
C29_RemovedBySend ==
    /\ NotOfTheProtocol /\ step.self = "tc_a" /\ step.msg.from = "r1"
    /\ MapHas(step.before, "tc_b") /\ ~MapHas(_peers["tc_a"], "tc_b")
    /\ Listening("tc_b")

\* C30 (sender resolvable on delivery): whenever an instance raises a
\* message notification for a user envelope, the from of the envelope is the
\* internalId or the registrationId of an entry that is in the peer table of
\* the receiver at that time.
C30_SenderResolvable ==
    (Delivered /\ UserEnvelope /\ Raised(step.notes, "message") # <<>>) =>
        _findPeerByAnyId(_peers[step.self], step.msg.from) # <<>>

\* The handlers of the events other than error that the last entry point invoked
HandlerCalls == SelectSeq(step.notes, LAMBDA n : n.via # "throw" /\ n.ev # "error")

\* C31 (error dispatch terminates): turning a handler failure into an error
\* notification ends by itself, also when a listener of the error event
\* throws each time it is invoked: an entry point never exhausts the call
\* stack, and it raises at most one error notification per invocation of a
\* handler of another event.
C31_ErrorDispatchTerminates ==
    (Delivered \/ Ticked) =>
        /\ ~StackExhausted(step.notes)
        /\ Len(Raised(step.notes, "error")) <= Len(HandlerCalls)

\* Without a throwing listener of the error event every error dispatch ends
C31_EndsWithoutErrorListener ==
    ((Delivered \/ Ticked) /\ "error" \notin _eventListeners[step.self]) =>
        /\ ~StackExhausted(step.notes) /\ step.result = "ok"
        /\ Len(Raised(step.notes, "error")) <= Len(HandlerCalls)

====
